---- MODULE Spec2Model ----
(***************************************************************************)
(* Weather dashboard: the WeatherService client (services/weatherAPI.ts)   *)
(* and the Home page's state handling (src/app/page.tsx).                  *)
(*                                                                         *)
(* Text values (city names, address fields) are sequences of one-character *)
(* strings, so that trimming and emptiness are computed, not assumed.      *)
(***************************************************************************)
EXTENDS Integers, Sequences, FiniteSets, TLC

\* ------------------------------------------------------------------ bounds
\* Largest absolute wind degree given to getWindDirection.
MaxDeg == 400
\* Number of request chains the page issues in one run.
MaxRequests == 3
\* Number of getForecastByCoords calls in a run of the service alone.
MaxCalls == 1

\* ---------------------------------------------------------- JavaScript values
\* A missing property / undefined text value.
Undefined == <<"undefined">>
\* null (locationInfo, weatherData).
Null == [null |-> TRUE]
\* The error state when no error is shown.
NoError == "null"
\* parseFloat's result for text that is not a number.
NaN == -9999

\* JavaScript truthiness of a text value: undefined and "" are falsy.
TruthyText(s) == s # Undefined /\ s # <<>>
\* JavaScript truthiness of a number: 0 and NaN are falsy.
TruthyNum(n) == n # 0 /\ n # NaN
\* a || b on text values.
OrText(a, b) == IF TruthyText(a) THEN a ELSE b

\* JavaScript's % : the remainder takes the sign of the dividend.
JsRem(a, n) == IF a >= 0 THEN a % n ELSE 0 - ((0 - a) % n)
\* Math.round(x / 45) for an integer x: floor(x/45 + 1/2).
RoundDiv45(x) == (2 * x + 45) \div 90

\* String.prototype.trim on a text value: drop leading and trailing spaces.
RECURSIVE TrimLeft(_)
TrimLeft(s) == IF s # <<>> /\ Head(s) = " " THEN TrimLeft(Tail(s)) ELSE s
RECURSIVE TrimRight(_)
TrimRight(s) ==
  IF s # <<>> /\ s[Len(s)] = " " THEN TrimRight(SubSeq(s, 1, Len(s) - 1)) ELSE s
Trim(s) == TrimRight(TrimLeft(s))

\* parseFloat on the coordinate texts the geocoder sends: an optional minus
\* sign and decimal digits; anything else (a missing field too) is NaN.
DigitVal(c) ==
  CASE c = "0" -> 0 [] c = "1" -> 1 [] c = "2" -> 2 [] c = "3" -> 3 [] c = "4" -> 4
    [] c = "5" -> 5 [] c = "6" -> 6 [] c = "7" -> 7 [] c = "8" -> 8 [] c = "9" -> 9
    [] OTHER -> NaN
RECURSIVE ParseDigits(_, _)
ParseDigits(s, acc) ==
  IF s = <<>> \/ DigitVal(Head(s)) = NaN THEN acc
  ELSE ParseDigits(Tail(s), 10 * acc + DigitVal(Head(s)))
ParseFloat(s) ==
  IF s = Undefined \/ s = <<>> THEN NaN
  ELSE IF Head(s) = "-"
       THEN IF Len(s) > 1 /\ DigitVal(s[2]) # NaN THEN 0 - ParseDigits(Tail(s), 0) ELSE NaN
       ELSE IF DigitVal(Head(s)) # NaN THEN ParseDigits(s, 0) ELSE NaN

\* ------------------------------------------------------------ getWindDirection
directions == <<"N", "NE", "E", "SE", "S", "SW", "W", "NW">>
\* directions[i] with a JavaScript index: out of range reads undefined.
DirectionAt(i) == IF i >= 0 /\ i < Len(directions) THEN directions[i + 1] ELSE "undefined"

\* A variant that indexes the table by the rounded octant with no modulo.
getWindDirectionNoModulo(deg) ==
  IF deg = <<>> THEN "N/A" ELSE DirectionAt(RoundDiv45(deg[1]))

\* getWindDirection(deg); deg is <<>> for undefined, <<d>> for the number d.
getWindDirection(deg) ==
  IF deg = <<>> THEN "N/A"
  ELSE DirectionAt(JsRem(RoundDiv45(JsRem(deg[1], 360)), 8))

\* ------------------------------------------------- getLocationFromCoords
UnknownLocation == <<"U", "n", "k", "n", "o", "w", "n", " ", "L", "o", "c", "a", "t", "i", "o", "n">>

Nairobi == <<"N", "a", "i", "r", "o", "b", "i">>
Ruiru == <<"R", "u", "i", "r", "u">>
Karen == <<"K", "a", "r", "e", "n">>
Kiambu == <<"K", "i", "a", "m", "b", "u">>
Kenya == <<"K", "e", "n", "y", "a">>
NairobiCounty == <<"N", "b", "o">>
Paris == <<"P", "a", "r", "i", "s">>
France == <<"F", "R">>
KE == <<"K", "E">>

\* The address object of a reverse-geocoding response body.
Addresses ==
  [city : {Undefined, <<>>, Nairobi}, town : {Undefined, <<>>, Ruiru},
   village : {Undefined, <<>>, Karen}, county : {Undefined, <<>>, Kiambu},
   state : {Undefined, NairobiCounty}, country : {Undefined, Kenya}]
NoAddress ==
  [city |-> Undefined, town |-> Undefined, village |-> Undefined, county |-> Undefined,
   state |-> Undefined, country |-> Undefined]

\* Outcomes of nominatimApi.get('/reverse'): the request fails (timeout, a
\* status outside 2xx), or it succeeds with a body that is unparsed text
\* (malformed JSON), an object without an address, or an address record.
NomFailures ==
  { [kind |-> k, shape |-> "none", address |-> NoAddress, lat |-> Undefined, lon |-> Undefined] :
      k \in {"timeout", "status"} }
NomBadBodies ==
  { [kind |-> "ok", shape |-> s, address |-> NoAddress, lat |-> Undefined, lon |-> Undefined] :
      s \in {"text", "noaddress"} }
NomRecords ==
  { [kind |-> "ok", shape |-> "record", address |-> a, lat |-> l[1], lon |-> l[2]] :
      a \in Addresses, l \in {<<Undefined, Undefined>>, <<<<"-", "1">>, <<"3", "7">>>>} }
NomResponses == NomFailures \cup NomBadBodies \cup NomRecords

\* The name chosen from an address (line 147).
\* A variant that prefers town over city.
LocationNameTownFirst(a) ==
  OrText(a.town, OrText(a.city, OrText(a.village, OrText(a.county, UnknownLocation))))
LocationName(a) ==
  OrText(a.city, OrText(a.town, OrText(a.village, OrText(a.county, UnknownLocation))))

\* The try block of getLocationFromCoords: throws when the request fails or
\* when data.address is undefined (reading .city of undefined).
LocationTry(resp) ==
  IF resp.kind # "ok" \/ resp.shape # "record" THEN [threw |-> TRUE, value |-> Null]
  ELSE [threw |-> FALSE,
        value |-> [name |-> LocationName(resp.address),
                   country |-> resp.address.country,
                   state |-> resp.address.state,
                   lat |-> ParseFloat(resp.lat),
                   lon |-> ParseFloat(resp.lon)]]

\* A variant without the catch block.
getLocationFromCoordsNoCatch(resp) == LocationTry(resp)

\* getLocationFromCoords: the catch block turns every throw into null.
getLocationFromCoords(resp) ==
  LET t == LocationTry(resp) IN
  IF t.threw THEN [threw |-> FALSE, value |-> Null] ELSE t

\* ------------------------------------------------------------ the backend
\* Positions the device, the backend and the page's forecasts can carry:
\* on the equator, on the prime meridian, and off both.
Positions == {[lat |-> 0, lon |-> 36], [lat |-> 51, lon |-> 0], [lat |-> -1, lon |-> 36]}
\* The position getCurrentPosition reports in the page's runs.
DevicePositions == {p \in Positions : p.lat < 0}
Units == {"metric", "imperial"}

\* Errors the weatherApi request rejects with (axios errors).
ErrTimeout ==
  [code |-> "ECONNABORTED", message |-> "timeout of 20000ms exceeded",
   hasResponse |-> FALSE, responseError |-> ""]
ErrNotFound ==
  [code |-> "ERR_BAD_REQUEST", message |-> "Request failed with status code 404",
   hasResponse |-> TRUE, responseError |-> "City not found"]
ErrServer ==
  [code |-> "ERR_BAD_RESPONSE", message |-> "Request failed with status code 500",
   hasResponse |-> TRUE, responseError |-> ""]
BackendErrors == {ErrTimeout, ErrNotFound, ErrServer}

\* Bodies of /api/weather/forecast/coordinates: the backend names the place
\* and reports the coordinates of the place it resolved, which need not be
\* the coordinates of the query.
CoordsBodies(u) ==
  { [city_info |-> [name |-> Ruiru, country |-> KE, state |-> Undefined,
                    lat |-> p.lat, lon |-> p.lon],
     tempUnits |-> u] : p \in Positions }
\* Bodies of /api/weather/forecast/city.
CityBodies(u) ==
  { [city_info |-> [name |-> Paris, country |-> France, state |-> Undefined,
                    lat |-> p.lat, lon |-> p.lon],
     tempUnits |-> u] : p \in Positions }
BackendResponses(kind, u) ==
  { [ok |-> TRUE, data |-> b] : b \in IF kind = "coords" THEN CoordsBodies(u) ELSE CityBodies(u) }
    \cup { [ok |-> FALSE, error |-> e] : e \in BackendErrors }

\* The reverse-geocoding outcomes the page's runs draw from: a timeout and a
\* full address record.
PageNomResponses ==
  { r \in NomResponses :
      \/ r.kind = "timeout"
      \/ /\ r.shape = "record"
         /\ r.lat # Undefined
         /\ r.address = [city |-> Nairobi, town |-> Undefined, village |-> Undefined,
                         county |-> Undefined, state |-> NairobiCounty, country |-> Kenya] }
\* The outcomes the runs of the service alone draw from: every failure and
\* bad body, and address records with or without a city, with or without
\* state and country.
ServiceNomResponses ==
  { r \in NomResponses :
      r.shape = "record" =>
        /\ r.lat # Undefined
        /\ r.address.town = Undefined
        /\ r.address.village = Undefined
        /\ r.address.county = Undefined
        /\ r.address.city # <<>>
        /\ (r.address.state = Undefined) <=> (r.address.country = Undefined) }

\* ------------------------------------------------------- getForecastByCoords
\* A variant whose merge also takes the geocoder's coordinates.
ForecastByCoordsReturnGeoCoords(loc, resp) ==
  IF ~resp.ok THEN [threw |-> TRUE, error |-> resp.error]
  ELSE [threw |-> FALSE,
        value |-> IF loc # Null
                  THEN [resp.data EXCEPT !.city_info = loc]
                  ELSE resp.data]
\* A variant that merges nothing.
ForecastByCoordsReturnNoMerge(loc, resp) ==
  IF ~resp.ok THEN [threw |-> TRUE, error |-> resp.error]
  ELSE [threw |-> FALSE, value |-> resp.data]
\* What getForecastByCoords returns or throws once the backend request has
\* settled (lines 193-209); loc is the awaited result of getLocationFromCoords.
ForecastByCoordsReturn(loc, resp) ==
  IF ~resp.ok THEN [threw |-> TRUE, error |-> resp.error]
  ELSE [threw |-> FALSE,
        value |-> IF loc # Null
                  THEN [resp.data EXCEPT !.city_info =
                          [@ EXCEPT !.name = loc.name, !.country = loc.country,
                                    !.state = loc.state]]
                  ELSE resp.data]

\* What getForecastByCity returns or throws (lines 164-175).
ForecastByCityReturn(resp) ==
  IF ~resp.ok THEN [threw |-> TRUE, error |-> resp.error]
  ELSE [threw |-> FALSE, value |-> resp.data]

\* ------------------------------------------------------------------ the page
\* Text the user can type into the city input (it starts empty).
CityInputs == {<<" ">>, Paris}

\* Messages the handlers pass to setError.
MsgNoGeolocation == "Geolocation is not supported by your browser"
MsgPosition == "Error getting location: User denied Geolocation"
MsgLocationTimeout ==
  "Connection timed out. The weather server might be slow or unavailable. Try searching by city name instead."
MsgSearchFallback == "Failed to fetch weather data"

LocationErrorMessage(err) ==
  IF err.code = "ECONNABORTED" THEN MsgLocationTimeout ELSE err.message
RefetchErrorMessage(err) == err.message
SearchErrorMessage(err) ==
  IF err.hasResponse
  THEN (IF err.responseError # "" THEN err.responseError ELSE MsgSearchFallback)
  ELSE err.message

VARIABLES
  city, weatherData, loading, error, units, geoLoading,  \* useState (lines 9-14)
  geoSupported,     \* whether navigator.geolocation exists
  effectPending,    \* the useEffect on getLocationWeather is due to run
  timers,           \* refetchWeather closures queued by setTimeout(..., 0)
  requests,         \* request chains in flight
  nextId,           \* issue number of the next request chain
  lastDone,         \* the service call that settled last: arguments and outcome
  shownId,          \* issue number of the request whose forecast is stored
  maxOkId,          \* largest issue number among the requests that stored a forecast
  toggleMark,       \* issue number the chains of the latest units toggle start at,
                    \* 0 when there is none, one of them failed, or the user asked anew
  windDeg, windLabel,   \* the wind sample and its rendered label
  nomResp, nomRet       \* a call of getLocationFromCoords and what it gave

pageVars == <<city, weatherData, loading, error, units, geoLoading, geoSupported,
              effectPending, timers, requests, nextId, lastDone, shownId, maxOkId,
              toggleMark>>
pureVars == <<windDeg, windLabel, nomResp, nomRet>>
vars == <<city, weatherData, loading, error, units, geoLoading, geoSupported,
          effectPending, timers, requests, nextId, lastDone, shownId, maxOkId,
          toggleMark, windDeg, windLabel, nomResp, nomRet>>

NoCall == [kind |-> "none"]

Init ==
  /\ city = <<>>
  /\ weatherData = Null
  /\ loading = FALSE
  /\ error = NoError
  /\ units = "metric"
  /\ geoLoading = FALSE
  /\ geoSupported \in BOOLEAN
  /\ effectPending = TRUE
  /\ timers = <<>>
  /\ requests = {}
  /\ nextId = 1
  /\ lastDone = NoCall
  /\ shownId = 0
  /\ maxOkId = 0
  /\ toggleMark = 0
  /\ windDeg = <<>>
  /\ windLabel = getWindDirection(<<>>)
  /\ nomResp = NoCall
  /\ nomRet = NoCall

\* Room for n more request chains besides those already queued.
Room(n) ==
  (nextId - 1) + Len(timers) + (IF effectPending THEN 1 ELSE 0) + n <= MaxRequests

NewRequest(origin, kind, stage, lat, lon, c, u) ==
  [id |-> nextId, origin |-> origin, kind |-> kind, stage |-> stage,
   lat |-> lat, lon |-> lon, city |-> c, units |-> u, loc |-> Null]

\* getLocationWeather (lines 30-71) up to the getCurrentPosition call; u is
\* the units of the closure.
GetLocationWeather(u) ==
  IF ~geoSupported
  THEN /\ error' = MsgNoGeolocation
       /\ UNCHANGED <<geoLoading, requests, nextId>>
  ELSE /\ geoLoading' = TRUE
       /\ error' = NoError
       /\ requests' = requests \cup {NewRequest("location", "coords", "position", 0, 0, <<>>, u)}
       /\ nextId' = nextId + 1

\* useEffect(() => getLocationWeather(), [getLocationWeather]) (lines 125-129):
\* runs after mount and after every render that changed units.
RunEffect ==
  /\ effectPending
  /\ effectPending' = FALSE
  /\ GetLocationWeather(units)
  /\ UNCHANGED <<city, weatherData, loading, units, geoSupported, timers, lastDone,
                 shownId, maxOkId, toggleMark, pureVars>>

\* The location button (lines 283-291), disabled while geoLoading.
ClickLocation ==
  /\ ~effectPending
  /\ ~geoLoading
  /\ Room(1)
  /\ GetLocationWeather(units)
  /\ toggleMark' = 0
  /\ UNCHANGED <<city, weatherData, loading, units, geoSupported, effectPending, timers,
                 lastDone, shownId, maxOkId, pureVars>>

\* onChange of the city input (line 269).
TypeCity(c) ==
  /\ ~effectPending
  /\ c # city
  /\ city' = c
  /\ UNCHANGED <<weatherData, loading, error, units, geoLoading, geoSupported,
                 effectPending, timers, requests, nextId, lastDone, shownId, maxOkId, toggleMark, pureVars>>

\* handleSearch's guard (line 133).
SearchAccepts(c) == Trim(c) # <<>>

\* handleSearch (lines 131-152) up to the await.
HandleSearch ==
  /\ ~effectPending
  /\ Room(1)
  /\ IF ~SearchAccepts(city)
     THEN UNCHANGED <<loading, error, requests, nextId, toggleMark>>
     ELSE /\ loading' = TRUE
          /\ toggleMark' = 0
          /\ error' = NoError
          /\ requests' = requests \cup {NewRequest("search", "city", "backend", 0, 0, city, units)}
          /\ nextId' = nextId + 1
  /\ UNCHANGED <<city, weatherData, units, geoLoading, geoSupported, effectPending,
                 timers, lastDone, shownId, maxOkId, pureVars>>

\* The units toggle (lines 294-306), disabled while loading or geoLoading:
\* setUnits, and refetchWeather of the current render queued on a timer.
\* The render that follows changes getLocationWeather, so the effect is due.
ToggleUnits ==
  /\ ~effectPending
  /\ ~(loading \/ geoLoading)
  /\ Room(2)
  /\ units' = (IF units = "metric" THEN "imperial" ELSE "metric")
  /\ timers' = Append(timers, [city |-> city, units |-> units,
                               info |-> IF weatherData = Null THEN Null
                                        ELSE weatherData.city_info])
  /\ effectPending' = TRUE
  /\ toggleMark' = nextId
  /\ UNCHANGED <<city, weatherData, loading, error, geoLoading, geoSupported, requests,
                 nextId, lastDone, shownId, maxOkId, pureVars>>

\* refetchWeather's choice of path (lines 77-121) for a closure c: the
\* coordinate path, the city path, or nothing.
RefetchPath(c) ==
  IF c.info # Null
  THEN IF TruthyNum(c.info.lat) /\ TruthyNum(c.info.lon) THEN "coords"
       ELSE IF TruthyText(c.city) THEN "city" ELSE "none"
  ELSE IF TruthyText(c.city) THEN "city" ELSE "none"

\* The timer fires: refetchWeather (lines 74-122) of the render that queued
\* it, up to its await.
RefetchWeather ==
  /\ timers # <<>>
  /\ LET c == Head(timers) IN
     /\ timers' = Tail(timers)
     /\ error' = NoError
     /\ CASE RefetchPath(c) = "coords" ->
               /\ geoLoading' = TRUE
               /\ requests' = requests \cup
                    {NewRequest("refetch", "coords", "geocode", c.info.lat, c.info.lon, <<>>, c.units)}
               /\ nextId' = nextId + 1
               /\ UNCHANGED loading
          [] RefetchPath(c) = "city" ->
               /\ loading' = TRUE
               /\ requests' = requests \cup
                    {NewRequest("refetch", "city", "backend", 0, 0, c.city, c.units)}
               /\ nextId' = nextId + 1
               /\ UNCHANGED geoLoading
          [] OTHER -> UNCHANGED <<loading, geoLoading, requests, nextId>>
  /\ UNCHANGED <<city, weatherData, units, geoSupported, effectPending, lastDone,
                 shownId, maxOkId, toggleMark, pureVars>>

\* getCurrentPosition's success callback (lines 40-43): getForecastByCoords
\* is called with the position and starts with the reverse geocoding.
PositionFound(r, p) ==
  /\ r \in requests
  /\ r.stage = "position"
  /\ requests' = (requests \ {r}) \cup {[r EXCEPT !.stage = "geocode", !.lat = p.lat, !.lon = p.lon]}
  /\ UNCHANGED <<city, weatherData, loading, error, units, geoLoading, geoSupported,
                 effectPending, timers, nextId, lastDone, shownId, maxOkId, toggleMark,
                 pureVars>>

\* The toggle mark once the chain of r ended: lost when a chain the toggle
\* started ended in failure.
MarkAfter(r, failed) == IF failed /\ r.id >= toggleMark THEN 0 ELSE toggleMark

\* getCurrentPosition's error callback (lines 61-64).
PositionFailed(r) ==
  /\ r \in requests
  /\ r.stage = "position"
  /\ requests' = requests \ {r}
  /\ error' = MsgPosition
  /\ geoLoading' = FALSE
  /\ toggleMark' = MarkAfter(r, TRUE)
  /\ UNCHANGED <<city, weatherData, loading, units, geoSupported, effectPending, timers,
                 nextId, lastDone, shownId, maxOkId, pureVars>>

\* getForecastByCoords, lines 182-191: the awaited getLocationFromCoords
\* settles and the backend request goes out with the caller's lat, lon, units.
\* A variant that gives up when the geocoder gave nothing.
AfterGeocodeNeedsLocation(r, loc) ==
  IF loc = Null THEN {} ELSE {[r EXCEPT !.stage = "backend", !.loc = loc]}
AfterGeocode(r, loc) == {[r EXCEPT !.stage = "backend", !.loc = loc]}

GeocodeSettled(r, nom) ==
  /\ r \in requests
  /\ r.stage = "geocode"
  /\ requests' = (requests \ {r}) \cup AfterGeocode(r, getLocationFromCoords(nom).value)
  /\ UNCHANGED <<city, weatherData, loading, error, units, geoLoading, geoSupported,
                 effectPending, timers, nextId, lastDone, shownId, maxOkId, toggleMark,
                 pureVars>>

\* The service call of request r once its backend request settled with resp.
ServiceReturn(r, resp) ==
  IF r.kind = "coords" THEN ForecastByCoordsReturn(r.loc, resp) ELSE ForecastByCityReturn(resp)

\* The message each caller's catch block shows.
CatchMessage(r, err) ==
  CASE r.origin = "location" -> LocationErrorMessage(err)
    [] r.origin = "search" -> SearchErrorMessage(err)
    [] OTHER -> RefetchErrorMessage(err)

\* The forecast the caller stores when the awaited call returned ret, given
\* the stored one.
\* A variant that drops a response older than the one shown.
StoredAfterSequenced(r, ret, old) ==
  IF ret.threw \/ r.id < shownId THEN old ELSE ret.value
\* A variant that clears the forecast when the call failed.
StoredAfterClearing(r, ret, old) == IF ret.threw THEN Null ELSE ret.value
StoredAfter(r, ret, old) == IF ret.threw THEN old ELSE ret.value

\* The backend request of r settles and the caller's continuation runs:
\* try / catch / finally of getLocationWeather (41-59), refetchWeather
\* (81-94, 99-107, 112-120) or handleSearch (138-151).
BackendSettled(r, resp) ==
  /\ r \in requests
  /\ r.stage = "backend"
  /\ LET ret == ServiceReturn(r, resp) IN
     /\ requests' = requests \ {r}
     /\ lastDone' = [id |-> r.id, origin |-> r.origin, kind |-> r.kind, lat |-> r.lat,
                     lon |-> r.lon, units |-> r.units, loc |-> r.loc, resp |-> resp,
                     ret |-> ret]
     /\ weatherData' = StoredAfter(r, ret, weatherData)
     /\ shownId' = IF ret.threw THEN shownId ELSE r.id
     /\ maxOkId' = IF ~ret.threw /\ r.id > maxOkId THEN r.id ELSE maxOkId
     /\ toggleMark' = MarkAfter(r, ret.threw)
     /\ error' = IF ret.threw THEN CatchMessage(r, ret.error) ELSE error
     /\ city' = IF ~ret.threw /\ r.origin = "location" /\ TruthyText(ret.value.city_info.name)
                THEN ret.value.city_info.name ELSE city
     /\ IF r.kind = "coords"
        THEN geoLoading' = FALSE /\ UNCHANGED loading
        ELSE loading' = FALSE /\ UNCHANGED geoLoading
  /\ UNCHANGED <<units, geoSupported, effectPending, timers, nextId, pureVars>>

Next ==
  \/ RunEffect
  \/ ClickLocation
  \/ \E c \in CityInputs : TypeCity(c)
  \/ HandleSearch
  \/ ToggleUnits
  \/ RefetchWeather
  \/ \E r \in requests, p \in DevicePositions : PositionFound(r, p)
  \/ \E r \in requests : PositionFailed(r)
  \/ \E r \in requests, nom \in PageNomResponses : GeocodeSettled(r, nom)
  \/ \E r \in requests : \E resp \in BackendResponses(r.kind, r.units) : BackendSettled(r, resp)

Spec == Init /\ [][Next]_vars

\* ------------------------------------------ the service called on its own
\* Some caller calls getForecastByCoords(p.lat, p.lon, u) and stores what it
\* returns, one call at a time.
CallForecastByCoords(p, u) ==
  /\ requests = {}
  /\ nextId <= MaxCalls
  /\ geoLoading' = TRUE
  /\ requests' = {NewRequest("location", "coords", "geocode", p.lat, p.lon, <<>>, u)}
  /\ nextId' = nextId + 1
  /\ UNCHANGED <<city, weatherData, loading, error, units, geoSupported, effectPending,
                 timers, lastDone, shownId, maxOkId, toggleMark, pureVars>>

NextService ==
  \/ \E p \in Positions, u \in Units : CallForecastByCoords(p, u)
  \/ \E r \in requests, nom \in ServiceNomResponses : GeocodeSettled(r, nom)
  \/ \E r \in requests : \E resp \in BackendResponses(r.kind, r.units) : BackendSettled(r, resp)
SpecService == Init /\ [][NextService]_vars

\* --------------------------------------------------- wind label rendering
\* The page renders getWindDirection(windDeg) for the degree of the sample.
SetWind(d) ==
  /\ windDeg' = <<d>>
  /\ windLabel' = getWindDirection(windDeg')
  /\ UNCHANGED <<nomResp, nomRet, pageVars>>

\* The same sample one full turn further.
TurnFull ==
  /\ windDeg # <<>>
  /\ windDeg[1] <= MaxDeg
  /\ windDeg' = <<windDeg[1] + 360>>
  /\ windLabel' = getWindDirection(windDeg')
  /\ UNCHANGED <<nomResp, nomRet, pageVars>>

NextWind == (\E d \in (0 - MaxDeg)..MaxDeg : SetWind(d)) \/ TurnFull
SpecWind == Init /\ [][NextWind]_vars

\* ------------------------------------------- a call of getLocationFromCoords
CallGetLocation(resp) ==
  /\ nomResp' = resp
  /\ nomRet' = getLocationFromCoords(resp)
  /\ UNCHANGED <<windDeg, windLabel, pageVars>>

NextGeo == \E resp \in NomResponses : CallGetLocation(resp)
SpecGeo == Init /\ [][NextGeo]_vars

\* ==================================================================== claims

\* C1: after a getForecastByCoords call whose backend request succeeded, the
\* returned city_info's name, country and state are the geocoder descriptor's
\* when getLocationFromCoords gave one, and the backend body's when it gave null.
C1_NameCountryState ==
  (lastDone.kind = "coords" /\ lastDone.resp.ok) =>
    /\ ~lastDone.ret.threw
    /\ LET ci == lastDone.ret.value.city_info
           from == IF lastDone.loc # Null THEN lastDone.loc ELSE lastDone.resp.data.city_info
       IN ci.name = from.name /\ ci.country = from.country /\ ci.state = from.state
\* A call where the geocoder's name replaced a different backend name.
C1_Witness ==
  /\ lastDone.kind = "coords"
  /\ lastDone.resp.ok
  /\ lastDone.loc # Null
  /\ lastDone.loc.name # lastDone.resp.data.city_info.name
  /\ lastDone.ret.value.city_info.name = lastDone.loc.name
  /\ weatherData = lastDone.ret.value

\* C2 as stated: after a successful getForecastByCoords(lat, lon, units), the
\* returned city_info's lat and lon equal the caller's lat and lon.
C2_InputCoords ==
  (lastDone.kind = "coords" /\ lastDone.resp.ok) =>
    /\ lastDone.ret.value.city_info.lat = lastDone.lat
    /\ lastDone.ret.value.city_info.lon = lastDone.lon
\* C2 as amended: after a successful getForecastByCoords call the returned
\* city_info's lat and lon are those of the backend response body, untouched
\* by the merge, also when the geocoder gave a descriptor with other coordinates.
C2_BackendCoords ==
  (lastDone.kind = "coords" /\ lastDone.resp.ok) =>
    /\ lastDone.ret.value.city_info.lat = lastDone.resp.data.city_info.lat
    /\ lastDone.ret.value.city_info.lon = lastDone.resp.data.city_info.lon
\* A successful call where the geocoder's coordinates differ from the body's.
C2_Witness ==
  /\ lastDone.kind = "coords"
  /\ lastDone.resp.ok
  /\ lastDone.loc # Null
  /\ lastDone.loc.lat # lastDone.resp.data.city_info.lat
  /\ lastDone.loc.lon # lastDone.resp.data.city_info.lon
  /\ lastDone.ret.value.city_info.lat = lastDone.resp.data.city_info.lat

\* Fields the NominatimResponse interface requires of a body.
NomWellFormed(resp) ==
  /\ resp.kind = "ok"
  /\ resp.shape = "record"
  /\ resp.address.country # Undefined
  /\ resp.lat # Undefined
  /\ resp.lon # Undefined

\* C3 as stated: getLocationFromCoords never throws; it returns null for every
\* failed request and every malformed or incomplete body, and a descriptor
\* only for a well-formed address record.
C3_NullUnlessWellFormed ==
  nomRet # NoCall =>
    /\ ~nomRet.threw
    /\ (nomRet.value # Null) <=> NomWellFormed(nomResp)
\* C3 as amended: getLocationFromCoords never throws; it returns null exactly
\* when the request failed or the body has no address object, and a
\* descriptor for every body that has one, complete or not.
C3_NullUnlessAddress ==
  nomRet # NoCall =>
    /\ ~nomRet.threw
    /\ (nomRet.value = Null) <=> (nomResp.kind # "ok" \/ nomResp.shape # "record")
\* A call whose body was malformed JSON and that returned null.
C3_Witness ==
  /\ nomResp # NoCall
  /\ nomResp.kind = "ok"
  /\ nomResp.shape = "text"
  /\ ~nomRet.threw
  /\ nomRet.value = Null

\* C4: in getForecastByCoords the backend request goes out after geocoding
\* whatever the geocoder gave, with the caller's lat, lon and units; the call
\* throws exactly when the backend request failed, with that error, and
\* returns a forecast when it succeeded, also with a null locationInfo.
C4_BackendDecides ==
  /\ [](lastDone.kind = "coords" =>
          /\ lastDone.ret.threw <=> ~lastDone.resp.ok
          /\ lastDone.ret.threw => lastDone.ret.error = lastDone.resp.error)
  /\ [][\A r \in requests :
          (r.stage = "geocode" /\ r \notin requests') =>
            \E q \in requests' :
              /\ q.id = r.id /\ q.stage = "backend"
              /\ q.lat = r.lat /\ q.lon = r.lon /\ q.units = r.units]_vars
\* A call that returned a forecast although geocoding gave null.
C4_Witness ==
  /\ lastDone.kind = "coords"
  /\ lastDone.loc = Null
  /\ lastDone.resp.ok
  /\ ~lastDone.ret.threw
  /\ weatherData = lastDone.ret.value

\* C5: for every address record, the descriptor's name is the first non-empty
\* of city, town, village, county, and "Unknown Location" when none is.
C5_FirstNonEmptyName ==
  (nomRet # NoCall /\ nomResp.kind = "ok" /\ nomResp.shape = "record") =>
    LET a == nomResp.address
        fields == <<a.city, a.town, a.village, a.county>>
        filled == {i \in 1..4 : fields[i] # Undefined /\ Len(fields[i]) > 0}
    IN /\ nomRet.value # Null
       /\ IF filled = {} THEN nomRet.value.name = UnknownLocation
          ELSE \E i \in filled :
                 /\ \A j \in filled : i <= j
                 /\ nomRet.value.name = fields[i]
\* A record without city, with an empty town, and with a village and a county.
C5_Witness ==
  /\ nomRet # NoCall
  /\ nomResp.kind = "ok" /\ nomResp.shape = "record"
  /\ nomResp.address.city = Undefined
  /\ nomResp.address.town = <<>>
  /\ nomResp.address.village = Karen
  /\ nomResp.address.county = Kiambu
  /\ nomRet.value.name = Karen

\* C6: whenever refetchWeather runs with a stored city_info and a non-empty
\* city input, it calls getForecastByCoords with the city_info's coordinates,
\* for every coordinate pair, latitude 0 and longitude 0 included.
C6_RefetchPrefersCoords ==
  [][(/\ timers # <<>>
      /\ timers' = Tail(timers)
      /\ Head(timers).info # Null
      /\ Head(timers).city # <<>>) =>
       \E q \in requests' \ requests :
         /\ q.kind = "coords"
         /\ q.lat = Head(timers).info.lat
         /\ q.lon = Head(timers).info.lon]_vars

\* C7: getForecastByCity is never called with an empty or whitespace-only
\* city: every city request in flight carries a name that trims to non-empty.
C7_CityNeverBlank ==
  \A r \in requests : r.kind = "city" => Trim(r.city) # <<>>

\* C8 as stated: for every integer degree d, getWindDirection(d + 360) gives
\* the label getWindDirection(d) gives.
C8_WrapAllDegrees ==
  [][(windDeg # <<>> /\ windDeg' # <<>> /\ windDeg'[1] = windDeg[1] + 360) =>
       windLabel' = windLabel]_vars
\* C8 as amended: for every integer degree d >= 0, getWindDirection(d + 360)
\* gives the label getWindDirection(d) gives.
C8_WrapNonNegative ==
  [][(windDeg # <<>> /\ windDeg' # <<>> /\ windDeg[1] >= 0
        /\ windDeg'[1] = windDeg[1] + 360) =>
       windLabel' = windLabel]_vars
\* 361 degrees rendered with the label of 1 degree.
C8_Witness ==
  /\ windDeg = <<361>>
  /\ windLabel = getWindDirection(<<1>>)
  /\ windLabel = "N"

C10_StaleOverwrites ==
  [][(lastDone' # lastDone /\ ~lastDone'.ret.threw /\ shownId > lastDone'.id) =>
       /\ weatherData' = lastDone'.ret.value
       /\ shownId' = lastDone'.id]_vars
\* The page shows the forecast of a request issued before one that already
\* stored its forecast.
C10_Witness ==
  /\ shownId > 0
  /\ lastDone.id = shownId
  /\ weatherData = lastDone.ret.value
  /\ maxOkId > shownId

\* Nothing is in flight, queued or due.
Quiet == requests = {} /\ timers = <<>> /\ ~effectPending

\* C11: once the chains a units toggle started (the queued refetchWeather and
\* the effect's getLocationWeather) have all ended, none in failure and at
\* least one having stored its forecast, the stored forecast was fetched with
\* the units now selected.
C11_UnitsMatchAfterToggle ==
  (toggleMark > 0 /\ Quiet /\ maxOkId >= toggleMark) =>
    (weatherData # Null /\ weatherData.tempUnits = units)

\* C12: loading is true whenever a city-name request is in flight, and
\* geoLoading is true whenever a geolocation lookup or a coordinate-based
\* request is in flight.
C12_FlagsCoverRequests ==
  /\ (\E r \in requests : r.kind = "city") => loading
  /\ (\E r \in requests : r.kind = "coords") => geoLoading

====
